---- MODULE Spec2Model ----
(***************************************************************************)
(* NOTAM validation and plotting (lib_notam_yaml.py, plot_notams.py).      *)
(*                                                                         *)
(* A Python string is a sequence of one-character strings.  An angle is    *)
(* an integer number of arc-seconds (1/3600 degree): every value the       *)
(* validators compute is degrees + minutes/60 + seconds/3600 with integer  *)
(* components, and the double comparisons of validate_range agree with the *)
(* exact comparison of arc-seconds for every such value (degrees 0..999,   *)
(* minutes and seconds 0..60).  Python's None is a record with             *)
(* valid = FALSE.                                                          *)
(***************************************************************************)
EXTENDS Integers, Sequences, FiniteSets, TLC

VARIABLES
    pc,          \* "start": the inputs are drawn; "done": the operation has run
    op,          \* the operation called
    tok,         \* the string passed to a field validator
    res,         \* the field validator's return value
    yaml_file,   \* the day's YAML file: absent, an empty document, or a list
    notam_list,  \* lib_notam_yaml.import_notams: the accepted records
    errors,      \* import_notams: the diagnostics
    outcome,     \* how the call ended: "returned", an exception, "exit"
    notams,      \* plot_notams: idents, latitudes, longitudes, radii, circles
    center,      \* compute_circle's arguments
    circle,      \* compute_circle's return value, lats and lons
    num,         \* add_number_suffix's argument, an int as its decimal digits
    ident_list,  \* abbreviate_idents' argument
    form,        \* the ident, lat, lon and rad fields of the posted form
    file0,       \* the day's file as it was when the operation was called
    ret          \* the return value of the other operations

vars == <<pc, op, tok, res, yaml_file, notam_list, errors, outcome, notams,
          center, circle, num, ident_list, form, file0, ret>>

(***************************************************************************)
(* Characters, str.upper() and int().                                      *)
(***************************************************************************)
LF == "\n"

DigitChars == {"0", "1", "2", "3", "4", "5", "6", "7", "8", "9"}

DigitVal(c) ==
    CASE c = "0" -> 0 [] c = "1" -> 1 [] c = "2" -> 2 [] c = "3" -> 3
      [] c = "4" -> 4 [] c = "5" -> 5 [] c = "6" -> 6 [] c = "7" -> 7
      [] c = "8" -> 8 [] c = "9" -> 9

UpperChar(c) ==
    CASE c = "n" -> "N" [] c = "s" -> "S" [] c = "e" -> "E" [] c = "w" -> "W"
      [] c = "m" -> "M" [] c = "a" -> "A" [] c = "x" -> "X"
      [] OTHER -> c

upper(s) == [i \in 1..Len(s) |-> UpperChar(s[i])]

\* int(s) and float(s) of a string of decimal digits
RECURSIVE int(_)
int(s) ==
    IF s = <<>> THEN 0
    ELSE 10 * int(SubSeq(s, 1, Len(s) - 1)) + DigitVal(s[Len(s)])

\* the decimal digits of n
RECURSIVE DecStr(_)
DecStr(n) ==
    IF n < 10 THEN <<CHOOSE c \in DigitChars : DigitVal(c) = n>>
    ELSE Append(DecStr(n \div 10),
                CHOOSE c \in DigitChars : DigitVal(c) = n % 10)

Range(s) == {s[i] : i \in 1..Len(s)}

(***************************************************************************)
(* Constants of lib_notam_yaml.py (plot_notams.py repeats them).           *)
(***************************************************************************)
MAX_IDENT_LEN == 20
MAX_LATITUDE == 90
MAX_LONGITUDE == 180
MINUTES_IN_ONE_DEGREE == 60
SECONDS_IN_ONE_DEGREE == 3600
MAX_MINUTES == 60
MAX_SECONDS == 60
NOTAM_KEYS == <<"ident", "lat", "lon", "rad">>

NoneNum == [valid |-> FALSE, val |-> 0]
NoneStr == [valid |-> FALSE, val |-> <<>>]
Some(v) == [valid |-> TRUE, val |-> v]

(***************************************************************************)
(* re.match with a pattern "^...$": "$" matches at the end of the string   *)
(* and just before a newline that ends the string, so the text the         *)
(* pattern's body has to cover is the string, or the string without its    *)
(* final newline.                                                          *)
(***************************************************************************)
MatchBodies(s) ==
    {s} \cup (IF Len(s) > 0 /\ s[Len(s)] = LF
              THEN {SubSeq(s, 1, Len(s) - 1)} ELSE {})

NoMatch == [matched |-> FALSE, degrees |-> <<>>, minutes |-> <<>>,
            seconds |-> <<>>, direction |-> ""]

\* the body of "^.{1,20}$": 1 to 20 characters, none a newline
IdentBody(b) ==
    /\ Len(b) >= 1
    /\ Len(b) <= MAX_IDENT_LEN
    /\ \A i \in 1..Len(b) : b[i] # LF

IS_IDENT(s) == \E b \in MatchBodies(s) : IdentBody(b)

\* the body of "^[0-9]{2}[0-9]{2}[0-9]{2}[NS]$"
LatBody(b) ==
    /\ Len(b) = 7
    /\ \A i \in 1..6 : b[i] \in DigitChars
    /\ b[7] \in {"N", "S"}

\* the body of "^[0-9]{2,3}[0-9]{2}[0-9]{2}[EW]$"
LonBody(b) ==
    /\ Len(b) \in {7, 8}
    /\ \A i \in 1..(Len(b) - 1) : b[i] \in DigitChars
    /\ b[Len(b)] \in {"E", "W"}

\* the named groups of a matched body: the last character is the direction,
\* the four before it minutes and seconds, what precedes them the degrees
Groups(b) ==
    [matched |-> TRUE,
     degrees |-> SubSeq(b, 1, Len(b) - 5),
     minutes |-> SubSeq(b, Len(b) - 4, Len(b) - 3),
     seconds |-> SubSeq(b, Len(b) - 2, Len(b) - 1),
     direction |-> b[Len(b)]]

IS_LAT(s) ==
    IF \E b \in MatchBodies(s) : LatBody(b)
    THEN Groups(CHOOSE b \in MatchBodies(s) : LatBody(b))
    ELSE NoMatch

IS_LON(s) ==
    IF \E b \in MatchBodies(s) : LonBody(b)
    THEN Groups(CHOOSE b \in MatchBodies(s) : LonBody(b))
    ELSE NoMatch

\* the body of "^(\d+)(NM)?$": the digit run is the longest prefix of digits
RadiusDigits(b) ==
    LET n == CHOOSE k \in 0..Len(b) :
                 /\ \A i \in 1..k : b[i] \in DigitChars
                 /\ (k < Len(b) => b[k + 1] \notin DigitChars)
    IN  SubSeq(b, 1, n)

RadiusBody(b) ==
    /\ Len(RadiusDigits(b)) >= 1
    /\ SubSeq(b, Len(RadiusDigits(b)) + 1, Len(b)) \in {<<>>, <<"N", "M">>}

IS_RADIUS(s) ==
    IF \E b \in MatchBodies(s) : RadiusBody(b)
    THEN [matched |-> TRUE,
          radius |-> RadiusDigits(CHOOSE b \in MatchBodies(s) : RadiusBody(b))]
    ELSE [matched |-> FALSE, radius |-> <<>>]

(***************************************************************************)
(* Field validators.                                                       *)
(***************************************************************************)
validate_ident(ident) ==
    IF ~IS_IDENT(ident) THEN NoneStr ELSE Some(ident)

\* number, min_val and max_val are compared as floats
validate_range(number, min_val, max_val) ==
    IF number < min_val \/ number > max_val THEN NoneNum ELSE Some(number)

validate_direction(direction, valid_directions) ==
    IF direction \notin valid_directions THEN NoneNum
    ELSE Some(IF direction \in {"N", "E"} THEN 1 ELSE -1)

\* the result is in arc-seconds
validate_lat_or_lon(m, valid_directions, max_degrees) ==
    IF ~m.matched THEN NoneNum
    ELSE
    LET whole_degrees == m.degrees
        minutes == validate_range(int(m.minutes), 0, MAX_MINUTES)
        seconds == validate_range(int(m.seconds), 0, MAX_SECONDS)
        sign == validate_direction(m.direction, valid_directions)
        abs_degrees ==
            int(whole_degrees) * SECONDS_IN_ONE_DEGREE
            + minutes.val * (SECONDS_IN_ONE_DEGREE \div MINUTES_IN_ONE_DEGREE)
            + seconds.val
        checked == validate_range(abs_degrees, 0,
                                  max_degrees * SECONDS_IN_ONE_DEGREE)
    IN  IF ~minutes.valid THEN NoneNum
        ELSE IF ~seconds.valid THEN NoneNum
        ELSE IF ~sign.valid THEN NoneNum
        ELSE IF ~checked.valid THEN NoneNum
        ELSE Some(sign.val * checked.val)

validate_lat(lat) ==
    validate_lat_or_lon(IS_LAT(lat), {"N", "S"}, MAX_LATITUDE)

validate_lon(lon) ==
    validate_lat_or_lon(IS_LON(lon), {"E", "W"}, MAX_LONGITUDE)

validate_radius(r) ==
    LET m == IS_RADIUS(r)
    IN  IF ~m.matched THEN NoneNum ELSE Some(int(m.radius))

(***************************************************************************)
(* Python's int is unbounded: an int that is passed to add_number_suffix   *)
(* is its sequence of decimal digits, most significant first, DecStr(n)    *)
(* for a loop index n.                                                     *)
(***************************************************************************)
DigitOf(v) == CHOOSE c \in DigitChars : DigitVal(c) = v

StripZeros(d) ==
    LET lead == CHOOSE k \in 0..(Len(d) - 1) :
                    /\ \A i \in 1..k : d[i] = "0"
                    /\ d[k + 1] # "0" \/ k = Len(d) - 1
    IN  SubSeq(d, lead + 1, Len(d))

IsZero(d) == d = <<"0">>

IsOdd(d) == DigitVal(d[Len(d)]) % 2 = 1

\* d // 2 by long division: the carry into a digit is the parity of the
\* digit before it
Halve(d) ==
    StripZeros([i \in 1..Len(d) |->
        DigitOf(((IF i > 1 THEN 10 * (DigitVal(d[i - 1]) % 2) ELSE 0)
                 + DigitVal(d[i])) \div 2)])

\* d * 2: the carry into a digit is whether the digit after it is 5 or more
Double(d) ==
    StripZeros([i \in 1..(Len(d) + 1) |->
        DigitOf(((IF i > 1 THEN 2 * DigitVal(d[i - 1]) ELSE 0)
                 + (IF i <= Len(d) /\ DigitVal(d[i]) >= 5 THEN 1 ELSE 0)) % 10)])

\* d + 1: the trailing nines turn to zeros
AddOne(d) ==
    LET nines == CHOOSE k \in 0..Len(d) :
                     /\ \A i \in (Len(d) - k + 1)..Len(d) : d[i] = "9"
                     /\ k = Len(d) \/ d[Len(d) - k] # "9"
        keep == Len(d) - nines
    IN  (IF keep = 0 THEN <<"1">>
         ELSE Append(SubSeq(d, 1, keep - 1), DigitOf(DigitVal(d[keep]) + 1)))
        \o [i \in 1..nines |-> "0"]

\* d.bit_length()
RECURSIVE BitLength(_)
BitLength(d) == IF IsZero(d) THEN 0 ELSE 1 + BitLength(Halve(d))

\* d >> k, with the last bit shifted out (guard) and whether any bit before
\* it was set (sticky)
RECURSIVE ShiftRight(_, _, _, _)
ShiftRight(d, k, guard, sticky) ==
    IF k = 0 THEN [m |-> d, guard |-> guard, sticky |-> sticky]
    ELSE ShiftRight(Halve(d), k - 1, IsOdd(d), sticky \/ guard)

\* d << k
RECURSIVE ShiftLeft(_, _)
ShiftLeft(d, k) == IF k = 0 THEN d ELSE ShiftLeft(Double(d), k - 1)

(***************************************************************************)
(* math.floor(n / 10).  n / 10 is the double nearest to the quotient       *)
(* (53 significant bits, ties to even); math.floor of a double is exact.   *)
(* With q = n // 10 of b bits and r = n % 10, the double's last bit weighs *)
(* 2^(b - 53).                                                             *)
(***************************************************************************)
MANTISSA_BITS == 53

\* q of b <= 53 bits: f = 53 - b fraction bits are kept, and r / 10 rounds
\* up to 1 when 1 - r / 10 is less than half the last bit
FloorOfExactQuotient(q, r, f) ==
    IF /\ f <= 2
       /\ \/ (10 - r) * (2 ^ (f + 1)) < 10
          \/ (10 - r) * (2 ^ (f + 1)) = 10 /\ IsOdd(q)
    THEN AddOne(q) ELSE q

\* q of more than 53 bits, s its top 53 bits with guard and sticky: the low
\* k bits of q and r / 10 are rounded away
FloorOfRoundedQuotient(s, r, k) ==
    ShiftLeft(IF s.guard /\ (s.sticky \/ r > 0 \/ IsOdd(s.m))
              THEN AddOne(s.m) ELSE s.m, k)

FloorOfQuotient(q, r, b) ==
    IF b <= MANTISSA_BITS
    THEN FloorOfExactQuotient(q, r, MANTISSA_BITS - b)
    ELSE FloorOfRoundedQuotient(
             ShiftRight(q, b - MANTISSA_BITS, FALSE, FALSE), r, b - MANTISSA_BITS)

TrueDivide(q, r) == FloorOfQuotient(q, r, BitLength(q))

FloorOfTrueDivideByTen(n) ==
    TrueDivide(IF Len(n) = 1 THEN <<"0">> ELSE SubSeq(n, 1, Len(n) - 1),
               DigitVal(n[Len(n)]))

(***************************************************************************)
(* add_number_suffix: "%d%s" % (n, "tsnrhtdd"[k::4]), the slice being the  *)
(* characters at k and k + 4.                                              *)
(***************************************************************************)
Bool2Int(b) == IF b THEN 1 ELSE 0

\* "tsnrhtdd"[k::4]
SuffixAt(k) ==
    <<<<"t", "s", "n", "r", "h", "t", "d", "d">>[k + 1],
      <<"t", "s", "n", "r", "h", "t", "d", "d">>[k + 5]>>

\* (tens % 10 != 1) * (n % 10 < 4) * n % 10
SuffixIndex(tens, last) ==
    Bool2Int(DigitVal(tens[Len(tens)]) # 1) * Bool2Int(last < 4) * last

add_number_suffix(n) ==
    n \o SuffixAt(SuffixIndex(FloorOfTrueDivideByTen(n), DigitVal(n[Len(n)])))

(***************************************************************************)
(* Diagnostics: the template, the formatted position, the key or the raw   *)
(* value the template is filled with.                                      *)
(***************************************************************************)
MISSING_REQUIRED_KEY(i_th, key) ==
    [template |-> "MISSING_REQUIRED_KEY", i_th |-> i_th, key |-> key,
     value |-> <<>>]

INVALID_IDENT(i_th, ident) ==
    [template |-> "INVALID_IDENT", i_th |-> i_th, key |-> "ident",
     value |-> ident]

INVALID_LATITUDE(i_th, latitude) ==
    [template |-> "INVALID_LATITUDE", i_th |-> i_th, key |-> "lat",
     value |-> latitude]

INVALID_LONGITUDE(i_th, longitude) ==
    [template |-> "INVALID_LONGITUDE", i_th |-> i_th, key |-> "lon",
     value |-> longitude]

INVALID_RADIUS(i_th, radius) ==
    [template |-> "INVALID_RADIUS", i_th |-> i_th, key |-> "rad",
     value |-> radius]

\* for key in NOTAM_KEYS: if key not in notam: errors.append(...)
MissingKeyErrors(ii, notam) ==
    LET missing == SelectSeq(NOTAM_KEYS, LAMBDA key : key \notin DOMAIN notam)
    IN  [j \in 1..Len(missing) |->
            MISSING_REQUIRED_KEY(add_number_suffix(DecStr(ii)), missing[j])]

(***************************************************************************)
(* The day's file as yaml.load reads it.                                   *)
(***************************************************************************)
AbsentFile == [kind |-> "absent", recs |-> <<>>]
EmptyFile == [kind |-> "none", recs |-> <<>>]
ListFile(recs) == [kind |-> "list", recs |-> recs]

(***************************************************************************)
(* lib_notam_yaml.import_notams.  The locals of the loop are threaded      *)
(* through the blocks of its body: errors, notam_list, valid_notam and how *)
(* the call stands ("running", or the exception that ended it).            *)
(* notam[key] of an absent key raises KeyError.  ii is 0-based.            *)
(***************************************************************************)
\* valid_notam = True; for key in NOTAM_KEYS: if key not in notam: ...
import_keys(ii, notam, st) ==
    [st EXCEPT !.errors = @ \o MissingKeyErrors(ii, notam),
               !.valid_notam = \A key \in Range(NOTAM_KEYS) : key \in DOMAIN notam]

import_ident(ii, notam, st) ==
    IF st.outcome # "running" THEN st
    ELSE IF "ident" \notin DOMAIN notam THEN [st EXCEPT !.outcome = "KeyError"]
    ELSE IF validate_ident(notam["ident"]).valid THEN st
    ELSE [st EXCEPT
            !.errors = Append(@, INVALID_IDENT(add_number_suffix(DecStr(ii)), notam["ident"])),
            !.valid_notam = FALSE]

\* import_lat with the errors.append dropped: an invalid latitude rejects
\* the record and records nothing
import_lat_silent(ii, notam, st) ==
    IF st.outcome # "running" THEN st
    ELSE IF "lat" \notin DOMAIN notam THEN [st EXCEPT !.outcome = "KeyError"]
    ELSE IF validate_lat(upper(notam["lat"])).valid THEN st
    ELSE [st EXCEPT !.valid_notam = FALSE]

import_lat(ii, notam, st) ==
    IF st.outcome # "running" THEN st
    ELSE IF "lat" \notin DOMAIN notam THEN [st EXCEPT !.outcome = "KeyError"]
    ELSE IF validate_lat(upper(notam["lat"])).valid THEN st
    ELSE [st EXCEPT
            !.errors = Append(@, INVALID_LATITUDE(add_number_suffix(DecStr(ii)), notam["lat"])),
            !.valid_notam = FALSE]

\* import_lon skipped once an earlier field of the record has failed
import_lon_short_circuit(ii, notam, st) ==
    IF st.outcome # "running" THEN st
    ELSE IF "lon" \notin DOMAIN notam THEN [st EXCEPT !.outcome = "KeyError"]
    ELSE IF ~st.valid_notam THEN st
    ELSE IF validate_lon(upper(notam["lon"])).valid THEN st
    ELSE [st EXCEPT
            !.errors = Append(@, INVALID_LONGITUDE(add_number_suffix(DecStr(ii)), notam["lon"])),
            !.valid_notam = FALSE]

import_lon(ii, notam, st) ==
    IF st.outcome # "running" THEN st
    ELSE IF "lon" \notin DOMAIN notam THEN [st EXCEPT !.outcome = "KeyError"]
    ELSE IF validate_lon(upper(notam["lon"])).valid THEN st
    ELSE [st EXCEPT
            !.errors = Append(@, INVALID_LONGITUDE(add_number_suffix(DecStr(ii)), notam["lon"])),
            !.valid_notam = FALSE]

\* import_rad with valid_notam = False dropped: an invalid radius is
\* reported and valid_notam is left as it was
import_rad_keeps_valid(ii, notam, st) ==
    IF st.outcome # "running" THEN st
    ELSE IF "rad" \notin DOMAIN notam THEN [st EXCEPT !.outcome = "KeyError"]
    ELSE IF validate_radius(upper(notam["rad"])).valid THEN st
    ELSE [st EXCEPT
            !.errors = Append(@, INVALID_RADIUS(add_number_suffix(DecStr(ii)), notam["rad"]))]

import_rad(ii, notam, st) ==
    IF st.outcome # "running" THEN st
    ELSE IF "rad" \notin DOMAIN notam THEN [st EXCEPT !.outcome = "KeyError"]
    ELSE IF validate_radius(upper(notam["rad"])).valid THEN st
    ELSE [st EXCEPT
            !.errors = Append(@, INVALID_RADIUS(add_number_suffix(DecStr(ii)), notam["rad"])),
            !.valid_notam = FALSE]

\* if valid_notam: notam_list.append(notam)
import_append(notam, st) ==
    IF st.outcome = "running" /\ st.valid_notam
    THEN [st EXCEPT !.notam_list = Append(@, notam)]
    ELSE st

\* one pass of the loop body
import_record(ii, notam, st) ==
    import_append(notam,
        import_rad(ii, notam,
            import_lon(ii, notam,
                import_lat(ii, notam,
                    import_ident(ii, notam,
                        import_keys(ii, notam, st))))))

RECURSIVE import_loop(_, _, _)
import_loop(raw, ii, st) ==
    IF ii >= Len(raw) \/ st.outcome # "running" THEN st
    ELSE import_loop(raw, ii + 1, import_record(ii, raw[ii + 1], st))

ImportLocals ==
    [errors |-> <<>>, notam_list |-> <<>>, valid_notam |-> TRUE,
     outcome |-> "running"]

\* return notam_list, unless an exception ended the call
import_return(st) ==
    IF st.outcome = "running" THEN [st EXCEPT !.outcome = "returned"] ELSE st

import_notams(file) ==
    IF file.kind = "absent" THEN import_return(ImportLocals)  \* FileNotFoundError
    ELSE IF file.kind = "none" \/ file.recs = <<>>
    THEN import_return(ImportLocals)                          \* not raw_notams
    ELSE import_return(import_loop(file.recs, 0, ImportLocals))

(***************************************************************************)
(* plot_notams.py: the geodesic circle.  get_location computes its point   *)
(* with sin, cos, asin and atan2 over doubles; the point is kept symbolic, *)
(* named by the coordinate and the four arguments that determine it.       *)
(***************************************************************************)
BEARINGS == 360

get_location(lat1, lon1, bearing, distance_nautical_miles) ==
    LET at == [lat1 |-> lat1, lon1 |-> lon1, bearing |-> bearing,
               distance |-> distance_nautical_miles]
    IN  <<[coord |-> "lat2", of |-> at], [coord |-> "lon2", of |-> at]>>

NoCircle == [lats |-> <<>>, lons |-> <<>>]

\* for bearing in range(lo, hi): lats.append(lat2); lons.append(lon2).
\* The passes lo..hi-1 append in ascending order; the range is evaluated by
\* halves, which keeps the depth of the evaluation logarithmic.
RECURSIVE circle_loop(_, _, _, _, _)
circle_loop(lat, lon, radius_nautical_miles, lo, hi) ==
    IF hi <= lo THEN NoCircle
    ELSE IF hi = lo + 1
    THEN LET p == get_location(lat, lon, lo, radius_nautical_miles)
         IN  [lats |-> <<p[1]>>, lons |-> <<p[2]>>]
    ELSE LET mid == (lo + hi) \div 2
             a == circle_loop(lat, lon, radius_nautical_miles, lo, mid)
             b == circle_loop(lat, lon, radius_nautical_miles, mid, hi)
         IN  [lats |-> a.lats \o b.lats, lons |-> a.lons \o b.lons]

\* compute_circle with the loop as range(1, 360)
compute_circle_from_one(lat, lon, radius_nautical_miles) ==
    circle_loop(lat, lon, radius_nautical_miles, 1, BEARINGS)

compute_circle(lat, lon, radius_nautical_miles) ==
    circle_loop(lat, lon, radius_nautical_miles, 0, BEARINGS)

\* compute_circles with every circle drawn around the first record's center
compute_circles_first_center(n) ==
    [ii \in 1..Len(n.idents) |->
        compute_circle(n.latitudes[1].val, n.longitudes[1].val, n.radii[1].val)]

\* for ii in range(len(idents)): circles.append(compute_circle(...))
RECURSIVE circles_loop(_, _, _)
circles_loop(n, ii, circles) ==
    IF ii >= Len(n.idents) THEN circles
    ELSE circles_loop(n, ii + 1,
             Append(circles,
                    compute_circle(n.latitudes[ii + 1].val,
                                   n.longitudes[ii + 1].val,
                                   n.radii[ii + 1].val)))

compute_circles(n) == circles_loop(n, 0, <<>>)

(***************************************************************************)
(* plot_notams.import_notams and main.  The loader appends every record's  *)
(* ident and validator results as it goes, and exits the process when any  *)
(* diagnostic was recorded.                                                *)
(***************************************************************************)
init_notams ==
    [idents |-> <<>>, radii |-> <<>>, latitudes |-> <<>>, longitudes |-> <<>>,
     circles |-> <<>>]

plot_import_keys(ii, notam, st) ==
    [st EXCEPT !.errors = @ \o MissingKeyErrors(ii, notam)]

plot_import_ident(ii, notam, st) ==
    IF st.outcome # "running" THEN st
    ELSE IF "ident" \notin DOMAIN notam THEN [st EXCEPT !.outcome = "KeyError"]
    ELSE [st EXCEPT
            !.errors = IF validate_ident(notam["ident"]).valid THEN @
                       ELSE Append(@, INVALID_IDENT(add_number_suffix(DecStr(ii)),
                                                    notam["ident"])),
            !.notams.idents = Append(@, notam["ident"])]

plot_import_lat(ii, notam, st) ==
    IF st.outcome # "running" THEN st
    ELSE IF "lat" \notin DOMAIN notam THEN [st EXCEPT !.outcome = "KeyError"]
    ELSE [st EXCEPT
            !.errors = IF validate_lat(upper(notam["lat"])).valid THEN @
                       ELSE Append(@, INVALID_LATITUDE(add_number_suffix(DecStr(ii)),
                                                       notam["lat"])),
            !.notams.latitudes = Append(@, validate_lat(upper(notam["lat"])))]

plot_import_lon(ii, notam, st) ==
    IF st.outcome # "running" THEN st
    ELSE IF "lon" \notin DOMAIN notam THEN [st EXCEPT !.outcome = "KeyError"]
    ELSE [st EXCEPT
            !.errors = IF validate_lon(upper(notam["lon"])).valid THEN @
                       ELSE Append(@, INVALID_LONGITUDE(add_number_suffix(DecStr(ii)),
                                                        notam["lon"])),
            !.notams.longitudes = Append(@, validate_lon(upper(notam["lon"])))]

plot_import_rad(ii, notam, st) ==
    IF st.outcome # "running" THEN st
    ELSE IF "rad" \notin DOMAIN notam THEN [st EXCEPT !.outcome = "KeyError"]
    ELSE [st EXCEPT
            !.errors = IF validate_radius(upper(notam["rad"])).valid THEN @
                       ELSE Append(@, INVALID_RADIUS(add_number_suffix(DecStr(ii)),
                                                     notam["rad"])),
            !.notams.radii = Append(@, validate_radius(upper(notam["rad"])))]

\* one pass of the loop body
plot_import_record(ii, notam, st) ==
    plot_import_rad(ii, notam,
        plot_import_lon(ii, notam,
            plot_import_lat(ii, notam,
                plot_import_ident(ii, notam,
                    plot_import_keys(ii, notam, st)))))

RECURSIVE plot_import_loop(_, _, _)
plot_import_loop(raw, ii, st) ==
    IF ii >= Len(raw) \/ st.outcome # "running" THEN st
    ELSE plot_import_loop(raw, ii + 1, plot_import_record(ii, raw[ii + 1], st))

PlotLocals == [errors |-> <<>>, notams |-> init_notams, outcome |-> "running"]

\* plot_import_return with the sys.exit dropped: the loader returns whatever
\* diagnostics it recorded
plot_import_return_no_exit(st) ==
    IF st.outcome # "running" THEN st
    ELSE [st EXCEPT !.outcome = "returned"]

\* if errors: sys.exit(-1); return notams
plot_import_return(st) ==
    IF st.outcome # "running" THEN st
    ELSE IF st.errors # <<>> THEN [st EXCEPT !.outcome = "exit"]
    ELSE [st EXCEPT !.outcome = "returned"]

plot_import_notams(file) ==
    IF file.kind = "absent"
    THEN [PlotLocals EXCEPT !.outcome = "FileNotFoundError"]   \* open()
    ELSE IF file.kind = "none"
    THEN [PlotLocals EXCEPT !.outcome = "TypeError"]           \* enumerate(None)
    ELSE plot_import_return(plot_import_loop(file.recs, 0, PlotLocals))

\* notams['circles'] = compute_circles(notams), then make_plot draws them
plot_circles(st) ==
    IF st.outcome # "returned" THEN st
    ELSE [st EXCEPT !.notams.circles = compute_circles(st.notams),
                    !.outcome = "plotted"]

plot_main(file) == plot_circles(plot_import_notams(file))

(***************************************************************************)
(* retrieve_notams.days_from_timespan.  A datetime is its year, month,     *)
(* day, hour and minute (strptime leaves seconds at 0).                    *)
(***************************************************************************)
\* TIMESPAN_SUBSTRING_RE.match: ten digits, "-", ten digits at the start of
\* the string; what follows them is not looked at
TIMESPAN_SUBSTRING_RE(s) ==
    IF /\ Len(s) >= 21
       /\ \A i \in (1..10) \cup (12..21) : s[i] \in DigitChars
       /\ s[11] = "-"
    THEN [matched |-> TRUE, start |-> SubSeq(s, 1, 10), stop |-> SubSeq(s, 12, 21)]
    ELSE [matched |-> FALSE, start |-> <<>>, stop |-> <<>>]

IsLeap(year) == year % 4 = 0 /\ (year % 100 # 0 \/ year % 400 = 0)

DaysInMonth(year, month) ==
    IF month = 2 THEN (IF IsLeap(year) THEN 29 ELSE 28)
    ELSE IF month \in {4, 6, 9, 11} THEN 30
    ELSE 31

NoDatetime ==
    [valid |-> FALSE, year |-> 0, month |-> 0, day |-> 0, hour |-> 0, minute |-> 0]

\* datetime.strptime(s, "%y%m%d%H%M") of ten digits: every field takes two
\* digits; %y 69..99 is 1969..1999 and 00..68 is 2000..2068; a month, day,
\* hour or minute out of range raises ValueError
strptime(s) ==
    LET yy == int(SubSeq(s, 1, 2))
        year == IF yy >= 69 THEN 1900 + yy ELSE 2000 + yy
        month == int(SubSeq(s, 3, 4))
        day == int(SubSeq(s, 5, 6))
        hour == int(SubSeq(s, 7, 8))
        minute == int(SubSeq(s, 9, 10))
    IN  IF /\ month \in 1..12
           /\ day \in 1..DaysInMonth(year, month)
           /\ hour \in 0..23
           /\ minute \in 0..59
        THEN [valid |-> TRUE, year |-> year, month |-> month, day |-> day,
              hour |-> hour, minute |-> minute]
        ELSE NoDatetime

\* a < b for datetimes
Before(a, b) ==
    LET ka == <<a.year, a.month, a.day, a.hour, a.minute>>
        kb == <<b.year, b.month, b.day, b.hour, b.minute>>
    IN  \E i \in 1..5 : ka[i] < kb[i] /\ \A j \in 1..(i - 1) : ka[j] = kb[j]

\* dt.replace(hour=0, minute=0)
Midnight(dt) == [dt EXCEPT !.hour = 0, !.minute = 0]

\* dt + datetime.timedelta(days=1)
NextDay(dt) ==
    IF dt.day < DaysInMonth(dt.year, dt.month) THEN [dt EXCEPT !.day = @ + 1]
    ELSE IF dt.month < 12 THEN [dt EXCEPT !.day = 1, !.month = @ + 1]
    ELSE [dt EXCEPT !.day = 1, !.month = 1, !.year = @ + 1]

\* "%0*d" % (width, n)
ZeroPad(n, width) ==
    [i \in 1..(width - Len(DecStr(n))) |-> "0"] \o DecStr(n)

\* dt.date().isoformat()
isoformat(dt) ==
    ZeroPad(dt.year, 4) \o <<"-">> \o ZeroPad(dt.month, 2) \o <<"-">>
        \o ZeroPad(dt.day, 2)

\* while this_day < stop_dt: days.append(...); this_day += timedelta(days=1)
RECURSIVE days_loop(_, _, _)
days_loop(this_day, stop_dt, days) ==
    IF ~Before(this_day, stop_dt) THEN days
    ELSE days_loop(NextDay(this_day), stop_dt, Append(days, isoformat(this_day)))

days_from_timespan(timespan) ==
    LET m == TIMESPAN_SUBSTRING_RE(timespan)
        start_dt == strptime(m.start)
        stop_dt == strptime(m.stop)
    IN  IF ~m.matched THEN [outcome |-> "ValueError", days |-> <<>>]
        ELSE IF ~start_dt.valid \/ ~stop_dt.valid
        THEN [outcome |-> "ValueError", days |-> <<>>]
        ELSE [outcome |-> "returned",
              days |-> days_loop(Midnight(start_dt), stop_dt, <<>>)]

(***************************************************************************)
(* retrieve_notams.abbreviate_idents.  The result is the returned string,  *)
(* or None, with how the call ended.                                       *)
(***************************************************************************)
\* the positions of sep in s, ascending, between 0 and Len(s) + 1
RECURSIVE Cuts(_, _, _)
Cuts(s, sep, i) ==
    IF i > Len(s) THEN <<Len(s) + 1>>
    ELSE IF s[i] = sep THEN <<i>> \o Cuts(s, sep, i + 1)
    ELSE Cuts(s, sep, i + 1)

\* s.split(sep)
split(s, sep) ==
    LET cuts == <<0>> \o Cuts(s, sep, 1)
    IN  [k \in 1..(Len(cuts) - 1) |-> SubSeq(s, cuts[k] + 1, cuts[k + 1] - 1)]

\* int(item) raises ValueError unless item is a literal; the literals tried
\* are runs of digits, without sign, blank or underscore
IsIntLiteral(item) ==
    /\ Len(item) >= 1
    /\ \A i \in 1..Len(item) : item[i] \in DigitChars

\* [[int(item) for item in ident.split('/')] for ident in idents]
split_idents(idents) ==
    [i \in 1..Len(idents) |->
        LET items == split(idents[i], "/")
        IN  [j \in 1..Len(items) |-> int(items[j])]]

\* zip(*split_idents): as many tuples as the shortest list has items
zip(lists) ==
    LET width == CHOOSE w \in 0..Len(lists[1]) :
                     /\ \A i \in 1..Len(lists) : Len(lists[i]) >= w
                     /\ \E i \in 1..Len(lists) : Len(lists[i]) = w
    IN  [j \in 1..width |-> [i \in 1..Len(lists) |-> lists[i][j]]]

\* for prefix in prefixes: if prefix != prefixes[0]: raise ValueError
\* check_prefixes looking at the last prefix only
check_prefixes_last_only(prefixes) ==
    prefixes[Len(prefixes)] = prefixes[1]

check_prefixes(prefixes) ==
    \A i \in 1..Len(prefixes) : prefixes[i] = prefixes[1]

\* str(group[0]), or '-'.join([str(group[0]), str(group[-1])])
\* group_str with every group written as a range
group_str_always_range(first, last) ==
    DecStr(first) \o <<"-">> \o DecStr(last)

group_str(first, last) ==
    IF first = last THEN DecStr(first)
    ELSE DecStr(first) \o <<"-">> \o DecStr(last)

\* for _, g in groupby(enumerate(suffixes), f): the group that starts at
\* index i (0-based) runs while index - suffix stays what it is at i
RECURSIVE groups_loop(_, _, _)
groups_loop(suffixes, i, suffixes_str) ==
    IF i >= Len(suffixes) THEN suffixes_str
    ELSE
    LET f(x) == x - suffixes[x + 1]
        last == CHOOSE j \in i..(Len(suffixes) - 1) :
                    /\ \A h \in i..j : f(h) = f(i)
                    /\ j = Len(suffixes) - 1 \/ f(j + 1) # f(i)
        str == group_str(suffixes[i + 1], suffixes[last + 1])
    IN  groups_loop(suffixes, last + 1,
                    IF suffixes_str = <<>> THEN str
                    ELSE suffixes_str \o <<",">> \o str)

abbreviate_idents(idents) ==
    IF idents = <<>> THEN [outcome |-> "returned", result |-> NoneStr]
    ELSE IF \E i \in 1..Len(idents) :
               \E item \in Range(split(idents[i], "/")) : ~IsIntLiteral(item)
    THEN [outcome |-> "ValueError", result |-> NoneStr]     \* int()
    ELSE IF Len(zip(split_idents(idents))) # 2
    THEN [outcome |-> "ValueError", result |-> NoneStr]     \* unpacking
    ELSE
    LET prefixes == zip(split_idents(idents))[1]
        suffixes == zip(split_idents(idents))[2]
    IN  IF ~check_prefixes(prefixes)
        THEN [outcome |-> "ValueError", result |-> NoneStr]
        ELSE [outcome |-> "returned",
              result |-> Some(DecStr(prefixes[1]) \o <<"/">>
                              \o groups_loop(suffixes, 0, <<>>))]

(***************************************************************************)
(* The store operations of lib_notam_yaml.py and the handlers of app.py    *)
(* that call them.  A store operation yields the file as it leaves it, its *)
(* return value and how the call ended.                                    *)
(***************************************************************************)
\* yaml.dump(notam_list) printed to the file; the file then loads as
\* notam_list
export_notams(the_list) == ListFile(the_list)

\* {'ident': ident, 'lat': lat, 'lon': lon, 'rad': rad}
new_notam(ident, lat, lon, rad) ==
    [ident |-> ident, lat |-> lat, lon |-> lon, rad |-> rad]

append_and_export_raw(file, loaded, notam) ==
    IF loaded.outcome # "returned"
    THEN [file |-> file, success |-> FALSE, outcome |-> loaded.outcome]
    ELSE [file |-> export_notams(Append(file.recs, notam)),
          success |-> TRUE, outcome |-> "returned"]

\* notam_list.append(new_notam); export_notams(...)
append_and_export(file, loaded, notam) ==
    IF loaded.outcome # "returned"
    THEN [file |-> file, success |-> FALSE, outcome |-> loaded.outcome]
    ELSE [file |-> export_notams(Append(loaded.notam_list, notam)),
          success |-> TRUE, outcome |-> "returned"]

add_notam(file, ident, lat, lon, rad) ==
    append_and_export(file, import_notams(file), new_notam(ident, lat, lon, rad))

\* the 0-based index at which the loop of delete_notam breaks, or -1
FirstMatch(the_list, ident, lat, lon, rad) ==
    LET hits == {ii \in 0..(Len(the_list) - 1) :
                    /\ the_list[ii + 1]["ident"] = ident
                    /\ the_list[ii + 1]["lat"] = lat
                    /\ the_list[ii + 1]["lon"] = lon
                    /\ the_list[ii + 1]["rad"] = rad}
    IN  IF hits = {} THEN -1 ELSE CHOOSE ii \in hits : \A h \in hits : ii <= h

\* notam_list.pop(ii), ii 0-based
pop(the_list, ii) ==
    SubSeq(the_list, 1, ii) \o SubSeq(the_list, ii + 2, Len(the_list))

\* if success: notam_list.pop(ii); export_notams(...)
pop_and_export(file, the_list, ii) ==
    IF ii < 0
    THEN [file |-> file, success |-> FALSE, outcome |-> "returned"]
    ELSE [file |-> export_notams(pop(the_list, ii)),
          success |-> TRUE, outcome |-> "returned"]

find_and_delete(file, loaded, ident, lat, lon, rad) ==
    IF loaded.outcome # "returned"
    THEN [file |-> file, success |-> FALSE, outcome |-> loaded.outcome]
    ELSE pop_and_export(file, loaded.notam_list,
                        FirstMatch(loaded.notam_list, ident, lat, lon, rad))

delete_notam(file, ident, lat, lon, rad) ==
    find_and_delete(file, import_notams(file), ident, lat, lon, rad)

\* notam['ident'] = ident; notam['lat'] = lat; notam['lon'] = lon;
\* notam['rad'] = rad on the record at ii, 0-based
assign(the_list, ii, ident, lat, lon, rad) ==
    [the_list EXCEPT ![ii + 1] =
        [@ EXCEPT !["ident"] = ident, !["lat"] = lat, !["lon"] = lon,
                  !["rad"] = rad]]

\* if success: export_notams(...)
assign_and_export(file, the_list, ii, ident, lat, lon, rad) ==
    IF ii < 0
    THEN [file |-> file, success |-> FALSE, outcome |-> "returned"]
    ELSE [file |-> export_notams(assign(the_list, ii, ident, lat, lon, rad)),
          success |-> TRUE, outcome |-> "returned"]

find_and_modify(file, loaded, orig_ident, orig_lat, orig_lon, orig_rad, ident, lat, lon, rad) ==
    IF loaded.outcome # "returned"
    THEN [file |-> file, success |-> FALSE, outcome |-> loaded.outcome]
    ELSE assign_and_export(file, loaded.notam_list,
                           FirstMatch(loaded.notam_list, orig_ident, orig_lat,
                                      orig_lon, orig_rad),
                           ident, lat, lon, rad)

modify_notam(file, orig_ident, orig_lat, orig_lon, orig_rad, ident, lat, lon, rad) ==
    find_and_modify(file, import_notams(file), orig_ident, orig_lat, orig_lon,
                    orig_rad, ident, lat, lon, rad)

\* render_template("index.html", notam_list=notam_list, ...)
render_template(loaded) ==
    [loaded EXCEPT !.outcome = IF @ = "returned" THEN "rendered" ELSE @]

\* home(day): the page lists import_notams of the day's file
home(file) == render_template(import_notams(file))

\* what a request that ended in an exception leaves
NoPage(how) == [outcome |-> how, notam_list |-> <<>>, errors |-> <<>>]

\* home_post, btn 'del', 'upd' and 'add': after the store operation,
\* home(day); an exception of the store operation ends the request
page_after(stored) ==
    IF stored.outcome # "returned" THEN NoPage(stored.outcome)
    ELSE home(stored.file)

(***************************************************************************)
(* home_post with btn 'plot': options = plot_notams.build_options(day=day), *)
(* plot_notams.main(options=options), return home(day).                    *)
(***************************************************************************)
\* def build_options(): the function has no parameters
build_options_parameters == {}

\* a call of build_options with keyword arguments: a keyword that names no
\* parameter raises TypeError before the body runs
build_options(kwargs) ==
    IF kwargs \subseteq build_options_parameters
    THEN [outcome |-> "returned"]
    ELSE [outcome |-> "TypeError"]

\* what home_post leaves when the plot step ended it
NoPlotPage(how, drawn, diagnostics) ==
    [outcome |-> how, notams |-> drawn, notam_list |-> <<>>,
     errors |-> diagnostics]

\* return home(day), after main has drawn the plot
home_after_plot(drawn, page) ==
    [outcome |-> page.outcome, notams |-> drawn,
     notam_list |-> page.notam_list, errors |-> page.errors]

\* plot_notams.main(options=options); return home(day)
main_then_home(file, plotted) ==
    IF plotted.outcome # "plotted"
    THEN NoPlotPage(plotted.outcome, plotted.notams, plotted.errors)
    ELSE home_after_plot(plotted.notams, home(file))

plot_post_with(file, options) ==
    IF options.outcome # "returned"
    THEN NoPlotPage(options.outcome, init_notams, <<>>)
    ELSE main_then_home(file, plot_main(file))

\* the branch passes day=day
plot_post(file) == plot_post_with(file, build_options({"day"}))

(***************************************************************************)
(* The inputs the operations are run on.                                   *)
(***************************************************************************)
MaxBatch == 2        \* records in a day's file
MaxRadDigits == 6    \* digits in a radius string
MaxIdentLen == 22    \* characters in an ident string
MaxOrdinal == 130    \* the loop indices passed to add_number_suffix
MaxSpanDays == 3     \* days between the dates of a timespan
MaxIdents == 3       \* idents in a list passed to abbreviate_idents

\* latitude and longitude strings: degrees, minutes, seconds, a direction
\* letter and what may follow it
LatDegrees ==
    {<<"0", "0">>, <<"4", "0">>, <<"8", "9">>, <<"9", "0">>, <<"9", "1">>,
     <<"9">>, <<"0", "9", "0">>}

LonDegrees ==
    {<<"0", "0">>, <<"7", "9">>, <<"0", "7", "9">>, <<"1", "7", "9">>,
     <<"1", "8", "0">>, <<"1", "8", "1">>, <<"9", "9", "9">>, <<"9">>,
     <<"0", "1", "8", "0">>}

MinSec ==
    {<<"0", "0">>, <<"0", "1">>, <<"1", "5">>, <<"3", "0">>, <<"5", "9">>,
     <<"6", "0">>, <<"6", "1">>, <<"0", "X">>}

Directions == {"N", "S", "E", "W"}

Tails == {<<>>, <<LF>>, <<"X">>}

LatTokens ==
    {d \o m \o s \o <<c>> \o t :
        d \in LatDegrees, m \in MinSec, s \in MinSec, c \in Directions,
        t \in Tails}

LonTokens ==
    {d \o m \o s \o <<c>> \o t :
        d \in LonDegrees, m \in MinSec, s \in MinSec, c \in Directions,
        t \in Tails}

\* radius strings: an optional sign, a run of digits, a suffix
RadDigitRuns == UNION {[1..k -> {"0", "4"}] : k \in 0..MaxRadDigits}

RadSuffixes ==
    {<<>>, <<"N", "M">>, <<"N">>, <<"M", "N">>, <<"N", "M", "4">>, <<LF>>,
     <<"N", "M", LF>>}

RadiusTokens ==
    {p \o d \o x : p \in {<<>>, <<"-">>}, d \in RadDigitRuns, x \in RadSuffixes}

\* ident strings: up to MaxIdentLen characters, with or without one newline
Rep(c, n) == [i \in 1..n |-> c]

IdentTokens ==
    {Rep(c, j) \o mid \o Rep(c, k) :
        c \in {"A", "/"}, mid \in {<<>>, <<LF>>},
        j \in 0..MaxIdentLen, k \in 0..1}

\* records of a day's file: every combination of a valid and an invalid
\* value of each field, and records that lack keys
GoodLat == <<"4", "0", "0", "0", "0", "0", "n">>
BadLat == <<"9", "0", "3", "0", "0", "0", "N">>
GoodLon == <<"0", "7", "9", "1", "5", "0", "0", "W">>
BadLon == <<"1", "8", "0", "0", "0", "0", "1", "E">>
GoodRad == <<"5", "n", "m">>
BadRad == <<"N", "M">>

FullRecords ==
    {[ident |-> i, lat |-> la, lon |-> lo, rad |-> r] :
        i \in {<<"A">>, <<"B">>, <<>>}, la \in {GoodLat, BadLat},
        lo \in {GoodLon, BadLon}, r \in {GoodRad, BadRad}}

Without(rec, keys) == [k \in (DOMAIN rec) \ keys |-> rec[k]]

PartialRecords ==
    {Without(rec, keys) :
        rec \in {[ident |-> <<"A">>, lat |-> GoodLat, lon |-> GoodLon,
                  rad |-> GoodRad],
                 [ident |-> <<>>, lat |-> BadLat, lon |-> BadLon,
                  rad |-> BadRad]},
        keys \in {{"rad"}, {"ident"}, {"lat", "lon"}}}

\* a second valid record, elsewhere and of another radius
OtherRecord ==
    [ident |-> <<"C">>,
     lat |-> <<"1", "5", "0", "0", "0", "0", "S">>,
     lon |-> <<"1", "0", "0", "0", "0", "0", "0", "E">>,
     rad |-> <<"4", "0", "0">>]

RawRecords == FullRecords \cup PartialRecords \cup {OtherRecord}

Batches == UNION {[1..n -> RawRecords] : n \in 0..MaxBatch}

Files == {AbsentFile, EmptyFile} \cup {ListFile(b) : b \in Batches}

\* centers (arc-seconds) and radii (nautical miles) of circles
Centers ==
    {[lat |-> la, lon |-> lo, radius |-> r] :
        la \in {0, 144000, -324000}, lo \in {0, -285300, 648000},
        r \in {0, 5, 400}}

NoCenter == [lat |-> 0, lon |-> 0, radius |-> 0]

\* timespans: start and stop are a base date moved on by up to MaxSpanDays
\* days, at one of a few times of day, in either order; and malformed ones
BaseDates ==
    {[valid |-> TRUE, year |-> y, month |-> m, day |-> d, hour |-> 0, minute |-> 0] :
        <<y, m, d>> \in {<<2018, 10, 26>>, <<2018, 10, 29>>, <<2018, 12, 30>>,
                         <<2019, 2, 27>>, <<2020, 2, 27>>, <<1999, 12, 30>>,
                         <<2068, 12, 26>>}}

TimesOfDay == {<<0, 0>>, <<0, 1>>, <<10, 0>>, <<13, 0>>, <<16, 30>>, <<23, 59>>}

RECURSIVE DaysOn(_, _)
DaysOn(dt, k) == IF k = 0 THEN dt ELSE DaysOn(NextDay(dt), k - 1)

\* dt.strftime("%y%m%d%H%M")
Stamp(dt) ==
    ZeroPad(dt.year % 100, 2) \o ZeroPad(dt.month, 2) \o ZeroPad(dt.day, 2)
        \o ZeroPad(dt.hour, 2) \o ZeroPad(dt.minute, 2)

Moments(base) ==
    {[DaysOn(base, k) EXCEPT !.hour = t[1], !.minute = t[2]] :
        k \in 0..MaxSpanDays, t \in TimesOfDay}

GoodStamp == <<"1", "8", "1", "0", "2", "9", "1", "0", "0", "0">>

MalformedTimespans ==
    {GoodStamp \o <<"_">> \o GoodStamp,
     GoodStamp \o <<"-">> \o SubSeq(GoodStamp, 1, 8),
     <<" ">> \o GoodStamp \o <<"-">> \o GoodStamp,
     GoodStamp \o <<"-">> \o <<"1", "8", "1", "3", "0", "1", "1", "0", "0", "0">>,
     GoodStamp \o <<"-">> \o <<"1", "9", "0", "2", "2", "9", "1", "0", "0", "0">>,
     GoodStamp \o <<"-">> \o <<"1", "8", "1", "0", "2", "9", "2", "4", "0", "0">>,
     GoodStamp \o <<"-">> \o <<"1", "8", "1", "0", "2", "9", "1", "0", "6", "0">>,
     <<"1", "8", "1", "0", "0", "0", "1", "0", "0", "0">> \o <<"-">> \o GoodStamp,
     <<>>}

TimespanTokens ==
    {Stamp(p[1]) \o <<"-">> \o Stamp(p[2]) :
        p \in UNION {Moments(base) \X Moments(base) : base \in BaseDates}}
    \cup {GoodStamp \o <<"-">> \o GoodStamp \o <<"x">>,
           \* 2068-12-30 to 1969-01-01
           <<"6", "8", "1", "2", "3", "0", "1", "0", "0", "0", "-",
             "6", "9", "0", "1", "0", "1", "1", "0", "0", "0">>}
    \cup MalformedTimespans

\* lists of idents: prefix/suffix with equal or different prefixes, with
\* leading zeros, and strings that are not of that form
IdentPool ==
    {<<"1", "0", "/", "1", "3", "3">>, <<"1", "0", "/", "1", "3", "4">>,
     <<"1", "0", "/", "1", "3", "5">>, <<"1", "0", "/", "1", "3", "7">>,
     <<"0", "1", "0", "/", "0", "1", "3", "6">>,
     <<"1", "1", "/", "1", "3", "4">>, <<"1", "1", "/", "9">>,
     <<"1", "0">>, <<"1", "0", "/", "1", "3", "8", "/", "5">>,
     <<"1", "0", "/", "x">>, <<"1", "0", "/">>}

IdentLists == UNION {[1..n -> IdentPool] : n \in 0..MaxIdents}

\* the day's files the store operations are run on, and the forms posted
StoreRecords ==
    {[ident |-> i, lat |-> GoodLat, lon |-> GoodLon, rad |-> GoodRad] :
        i \in {<<"A">>, <<"B">>, <<>>}}
    \cup {[ident |-> <<"A">>, lat |-> BadLat, lon |-> GoodLon, rad |-> GoodRad],
          Without([ident |-> <<"A">>, lat |-> GoodLat, lon |-> GoodLon,
                   rad |-> GoodRad], {"rad"}),
          OtherRecord}

StoreFiles ==
    {AbsentFile, EmptyFile}
    \cup {ListFile(b) : b \in UNION {[1..n -> StoreRecords] : n \in 0..MaxBatch}}

Forms ==
    {rec \in StoreRecords : DOMAIN rec = Range(NOTAM_KEYS)}
    \cup {[ident |-> <<"A">>, lat |-> upper(GoodLat), lon |-> GoodLon,
           rad |-> GoodRad],
          [ident |-> <<"A">>, lat |-> GoodLat, lon |-> GoodLon, rad |-> BadRad]}

\* the fields of a POST with btn 'upd': the record aimed at and its new values
UpdForms ==
    {[orig_ident |-> o.ident, orig_lat |-> o.lat, orig_lon |-> o.lon,
      orig_rad |-> o.rad, ident |-> n.ident, lat |-> n.lat, lon |-> n.lon,
      rad |-> n.rad] : o \in Forms, n \in Forms}

NoForm == [ident |-> <<>>, lat |-> <<>>, lon |-> <<>>, rad |-> <<>>]

\* ints passed to add_number_suffix: 0..MaxOrdinal, and ints around the
\* sizes at which n / 10 stops being exact (2^53 is 9007199254740992)
BigNumbers ==
    {<<"9","0","0","7","1","9","9","2","5","4","7","4","0","9">> \o x \o y :
        x \in {<<"8">>, <<"9">>, <<"9","0">>, <<"9","1">>, <<"9","2">>,
               <<"9","3">>},
        y \in {<<"0", "9">>, <<"1", "1">>, <<"1", "2">>, <<"2", "1">>,
               <<"5">>, <<"1", "3">>}}
    \cup {<<"1">> \o [i \in 1..z |-> "0"] \o y :
            z \in 13..17,
            y \in {<<"1", "1">>, <<"1", "2">>, <<"1", "3">>, <<"2", "1">>,
                   <<"0", "4">>}}

Numbers == {DecStr(n) : n \in 0..MaxOrdinal} \cup BigNumbers

(***************************************************************************)
(* The state machine: Init draws an operation and its inputs, the          *)
(* operation's action runs it to its end.                                  *)
(***************************************************************************)
Blank ==
    /\ pc = "start"
    /\ res = NoneNum
    /\ notam_list = <<>>
    /\ errors = <<>>
    /\ outcome = "none"
    /\ notams = init_notams
    /\ circle = NoCircle
    /\ ret = "none"
    /\ file0 = yaml_file

Init ==
    /\ \/ /\ op = "validate_ident"
          /\ tok \in IdentTokens
          /\ yaml_file = AbsentFile /\ center = NoCenter /\ num = <<"0">>
          /\ ident_list = <<>> /\ form = NoForm
       \/ /\ op = "validate_lat"
          /\ tok \in LatTokens
          /\ yaml_file = AbsentFile /\ center = NoCenter /\ num = <<"0">>
          /\ ident_list = <<>> /\ form = NoForm
       \/ /\ op = "validate_lon"
          /\ tok \in LonTokens
          /\ yaml_file = AbsentFile /\ center = NoCenter /\ num = <<"0">>
          /\ ident_list = <<>> /\ form = NoForm
       \/ /\ op = "validate_radius"
          /\ tok \in RadiusTokens
          /\ yaml_file = AbsentFile /\ center = NoCenter /\ num = <<"0">>
          /\ ident_list = <<>> /\ form = NoForm
       \/ /\ op \in {"import_notams", "plot_main"}
          /\ yaml_file \in Files
          /\ tok = <<>> /\ center = NoCenter /\ num = <<"0">>
          /\ ident_list = <<>> /\ form = NoForm
       \/ /\ op = "compute_circle"
          /\ center \in Centers
          /\ tok = <<>> /\ yaml_file = AbsentFile /\ num = <<"0">>
          /\ ident_list = <<>> /\ form = NoForm
       \/ /\ op = "days_from_timespan"
          /\ tok \in TimespanTokens
          /\ yaml_file = AbsentFile /\ center = NoCenter /\ num = <<"0">>
          /\ ident_list = <<>> /\ form = NoForm
       \/ /\ op = "abbreviate_idents"
          /\ ident_list \in IdentLists
          /\ tok = <<>> /\ yaml_file = AbsentFile /\ center = NoCenter
          /\ num = <<"0">> /\ form = NoForm
       \/ /\ op = "modify_notam"
          /\ yaml_file \in StoreFiles
          /\ form \in UpdForms
          /\ tok = <<>> /\ center = NoCenter /\ num = <<"0">>
          /\ ident_list = <<>>
       \/ /\ op = "plot_post"
          /\ yaml_file \in StoreFiles
          /\ form = NoForm
          /\ tok = <<>> /\ center = NoCenter /\ num = <<"0">>
          /\ ident_list = <<>>
       \/ /\ op \in {"delete_notam", "add_notam"}
          /\ yaml_file \in StoreFiles
          /\ form \in Forms
          /\ tok = <<>> /\ center = NoCenter /\ num = <<"0">>
          /\ ident_list = <<>>
       \/ /\ op = "add_number_suffix"
          /\ num \in Numbers
          /\ tok = <<>> /\ yaml_file = AbsentFile /\ center = NoCenter
          /\ ident_list = <<>> /\ form = NoForm
    /\ Blank

ValidateIdent ==
    /\ pc = "start" /\ op = "validate_ident"
    /\ res' = validate_ident(tok)
    /\ pc' = "done"
    /\ UNCHANGED <<num, ident_list, form, file0, ret,
                   op, tok, yaml_file, notam_list, errors, outcome, notams,
                   center, circle>>

ValidateLat ==
    /\ pc = "start" /\ op = "validate_lat"
    /\ res' = validate_lat(tok)
    /\ pc' = "done"
    /\ UNCHANGED <<num, ident_list, form, file0, ret,
                   op, tok, yaml_file, notam_list, errors, outcome, notams,
                   center, circle>>

ValidateLon ==
    /\ pc = "start" /\ op = "validate_lon"
    /\ res' = validate_lon(tok)
    /\ pc' = "done"
    /\ UNCHANGED <<num, ident_list, form, file0, ret,
                   op, tok, yaml_file, notam_list, errors, outcome, notams,
                   center, circle>>

ValidateRadius ==
    /\ pc = "start" /\ op = "validate_radius"
    /\ res' = validate_radius(tok)
    /\ pc' = "done"
    /\ UNCHANGED <<num, ident_list, form, file0, ret,
                   op, tok, yaml_file, notam_list, errors, outcome, notams,
                   center, circle>>

ImportNotams ==
    /\ pc = "start" /\ op = "import_notams"
    /\ \E st \in {import_notams(yaml_file)} :
           /\ notam_list' = st.notam_list
           /\ errors' = st.errors
           /\ outcome' = st.outcome
    /\ pc' = "done"
    /\ UNCHANGED <<num, ident_list, form, file0, ret,
                   op, tok, res, yaml_file, notams, center, circle>>

PlotMain ==
    /\ pc = "start" /\ op = "plot_main"
    /\ \E st \in {plot_main(yaml_file)} :
           /\ notams' = st.notams
           /\ errors' = st.errors
           /\ outcome' = st.outcome
    /\ pc' = "done"
    /\ UNCHANGED <<num, ident_list, form, file0, ret,
                   op, tok, res, yaml_file, notam_list, center, circle>>

ComputeCircle ==
    /\ pc = "start" /\ op = "compute_circle"
    /\ circle' = compute_circle(center.lat, center.lon, center.radius)
    /\ pc' = "done"
    /\ UNCHANGED <<num, ident_list, form, file0, ret,
                   op, tok, res, yaml_file, notam_list, errors, outcome,
                   notams, center>>

AddNumberSuffix ==
    /\ pc = "start" /\ op = "add_number_suffix"
    /\ ret' = add_number_suffix(num)
    /\ pc' = "done"
    /\ UNCHANGED <<op, tok, res, yaml_file, notam_list, errors, outcome,
                   notams, center, circle, num, ident_list, form, file0>>

DaysFromTimespan ==
    /\ pc = "start" /\ op = "days_from_timespan"
    /\ \E st \in {days_from_timespan(tok)} :
           /\ ret' = st.days
           /\ outcome' = st.outcome
    /\ pc' = "done"
    /\ UNCHANGED <<op, tok, res, yaml_file, notam_list, errors, notams,
                   center, circle, num, ident_list, form, file0>>

AbbreviateIdents ==
    /\ pc = "start" /\ op = "abbreviate_idents"
    /\ \E st \in {abbreviate_idents(ident_list)} :
           /\ ret' = st.result
           /\ outcome' = st.outcome
    /\ pc' = "done"
    /\ UNCHANGED <<op, tok, res, yaml_file, notam_list, errors, notams,
                   center, circle, num, ident_list, form, file0>>

\* home_post with btn 'plot'
PlotPost ==
    /\ pc = "start" /\ op = "plot_post"
    /\ \E st \in {plot_post(yaml_file)} :
           /\ outcome' = st.outcome
           /\ notams' = st.notams
           /\ notam_list' = st.notam_list
           /\ errors' = st.errors
    /\ pc' = "done"
    /\ UNCHANGED <<op, tok, res, yaml_file, center, circle, num, ident_list,
                   form, file0, ret>>

\* home_post with btn 'del'
DeleteNotam ==
    /\ pc = "start" /\ op = "delete_notam"
    /\ \E st \in {delete_notam(yaml_file, form.ident, form.lat, form.lon, form.rad)} :
           /\ yaml_file' = st.file
           /\ ret' = st.success
           /\ \E page \in {page_after(st)} :
                  /\ outcome' = page.outcome
                  /\ notam_list' = page.notam_list
                  /\ errors' = page.errors
    /\ pc' = "done"
    /\ UNCHANGED <<op, tok, res, notams, center, circle, num, ident_list,
                   form, file0>>

\* home_post with btn 'upd'
ModifyNotam ==
    /\ pc = "start" /\ op = "modify_notam"
    /\ \E st \in {modify_notam(yaml_file, form.orig_ident, form.orig_lat,
                                form.orig_lon, form.orig_rad, form.ident,
                                form.lat, form.lon, form.rad)} :
           /\ yaml_file' = st.file
           /\ ret' = st.success
           /\ \E page \in {page_after(st)} :
                  /\ outcome' = page.outcome
                  /\ notam_list' = page.notam_list
                  /\ errors' = page.errors
    /\ pc' = "done"
    /\ UNCHANGED <<op, tok, res, notams, center, circle, num, ident_list,
                   form, file0>>

\* home_post with btn 'add'
AddNotam ==
    /\ pc = "start" /\ op = "add_notam"
    /\ \E st \in {add_notam(yaml_file, form.ident, form.lat, form.lon, form.rad)} :
           /\ yaml_file' = st.file
           /\ ret' = st.success
           /\ \E page \in {page_after(st)} :
                  /\ outcome' = page.outcome
                  /\ notam_list' = page.notam_list
                  /\ errors' = page.errors
    /\ pc' = "done"
    /\ UNCHANGED <<op, tok, res, notams, center, circle, num, ident_list,
                   form, file0>>

Next ==
    \/ PlotPost
    \/ DeleteNotam
    \/ ModifyNotam
    \/ AddNotam
    \/ AbbreviateIdents
    \/ AddNumberSuffix
    \/ DaysFromTimespan
    \/ ValidateIdent
    \/ ValidateLat
    \/ ValidateLon
    \/ ValidateRadius
    \/ ImportNotams
    \/ PlotMain
    \/ ComputeCircle

Spec == Init /\ [][Next]_vars

(***************************************************************************)
(* Properties.                                                             *)
(***************************************************************************)
Done(o) == pc = "done" /\ op = o

Recs == yaml_file.recs

\* every key present and every field validator passing
FieldsValid(notam) ==
    /\ DOMAIN notam = Range(NOTAM_KEYS)
    /\ validate_ident(notam["ident"]).valid
    /\ validate_lat(upper(notam["lat"])).valid
    /\ validate_lon(upper(notam["lon"])).valid
    /\ validate_radius(upper(notam["rad"])).valid

\* the diagnostics that carry the position of record ii (0-based)
DiagnosticsOf(ii) ==
    {k \in 1..Len(errors) : errors[k].i_th = add_number_suffix(DecStr(ii))}

\* the j-th smallest element of a set of positions
Nth(K, j) == CHOOSE i \in K : Cardinality({h \in K : h <= i}) = j

\* the subsequence of s at the positions K
At(s, K) == [j \in 1..Cardinality(K) |-> s[Nth(K, j)]]

\* C1: every record in the list import_notams returns has its four keys and
\* passed validate_ident, validate_lat, validate_lon and validate_radius.
C1_AcceptedPassedAll ==
    (Done("import_notams") /\ outcome = "returned")
        => \A i \in 1..Len(notam_list) : FieldsValid(notam_list[i])

\* a returned call that accepted some records of the file and rejected others
C1_Witness ==
    /\ Done("import_notams") /\ outcome = "returned"
    /\ Len(notam_list) >= 1
    /\ Len(notam_list) < Len(Recs)

\* C2: a batch with one record lacking 'rad' (its other fields valid) and
\* otherwise valid records returns without raising, with exactly one
\* missing-key diagnostic for that record and every other record accepted.
LacksOnlyRad(notam) ==
    /\ DOMAIN notam = {"ident", "lat", "lon"}
    /\ validate_ident(notam["ident"]).valid
    /\ validate_lat(upper(notam["lat"])).valid
    /\ validate_lon(upper(notam["lon"])).valid

C2_MissingRadRecovered ==
    \A k \in 1..Len(Recs) :
        (/\ Done("import_notams")
         /\ LacksOnlyRad(Recs[k])
         /\ \A j \in 1..Len(Recs) : j # k => FieldsValid(Recs[j]))
        => /\ outcome = "returned"
           /\ Cardinality({e \in DiagnosticsOf(k - 1) :
                  errors[e].template = "MISSING_REQUIRED_KEY"}) = 1
           /\ notam_list = At(Recs, (1..Len(Recs)) \ {k})

\* C3: when import_notams returns, the records left out of the returned list
\* are exactly those with a diagnostic carrying their position, every
\* diagnostic carries the position of a record of the input, and the
\* returned list is the other records in input order.
C3_ExcludedIffDiagnosed ==
    (Done("import_notams") /\ outcome = "returned")
        => /\ notam_list =
                At(Recs, {i \in 1..Len(Recs) : DiagnosticsOf(i - 1) = {}})
           /\ \A k \in 1..Len(errors) :
                \E i \in 1..Len(Recs) : k \in DiagnosticsOf(i - 1)

\* a returned call whose first record was excluded with two or more
\* diagnostics and whose second record was accepted
C3_Witness ==
    /\ Done("import_notams") /\ outcome = "returned"
    /\ Len(Recs) = 2
    /\ Cardinality(DiagnosticsOf(0)) >= 2
    /\ notam_list = <<Recs[2]>>

\* C4 as claimed: the plot pipeline processes a batch that mixes valid and
\* invalid records to the end, with one label point and one circle for
\* every valid record, in input order.  The invalid records taken here have
\* their four keys and a field that fails its validator, so that no KeyError
\* stands between the loader and the end of the batch.
ValidPositions == {i \in 1..Len(Recs) : FieldsValid(Recs[i])}

Mixed ==
    /\ yaml_file.kind = "list"
    /\ ValidPositions # {}
    /\ ValidPositions # 1..Len(Recs)

AllKeyed == \A i \in 1..Len(Recs) : DOMAIN Recs[i] = Range(NOTAM_KEYS)

TwoDigits(t, i) == 10 * DigitVal(t[i]) + DigitVal(t[i + 1])

\* t is n digits followed by one of the letters
DigitsThenLetter(t, n, letters) ==
    /\ Len(t) = n + 1
    /\ \A i \in 1..n : t[i] \in DigitChars
    /\ t[n + 1] \in letters

\* the arc-seconds of the digits of t: degrees (all but the last four
\* digits), minutes, seconds
ArcSeconds(t) ==
    LET n == Len(t) - 1
        degrees == IF n = 7 THEN 100 * DigitVal(t[1]) + TwoDigits(t, 2)
                   ELSE TwoDigits(t, 1)
    IN  degrees * 3600 + TwoDigits(t, n - 3) * 60 + TwoDigits(t, n - 1)

InRange(t, max_degrees) ==
    /\ TwoDigits(t, Len(t) - 4) <= 60
    /\ TwoDigits(t, Len(t) - 2) <= 60
    /\ ArcSeconds(t) <= max_degrees * 3600

Signed(t) ==
    IF t[Len(t)] \in {"N", "E"} THEN ArcSeconds(t) ELSE 0 - ArcSeconds(t)

\* C5: validate_lat accepts a token iff it is six digits DDMMSS followed by
\* N or S with MM <= 60, SS <= 60 and at most 90 degrees of arc-seconds, and
\* then returns the signed value, within [-90, 90] degrees; every other
\* token is invalid.
C5_LatAcceptedIffWellFormed ==
    Done("validate_lat")
        => /\ res.valid <=> (DigitsThenLetter(tok, 6, {"N", "S"}) /\ InRange(tok, 90))
           /\ res.valid => /\ res.val = Signed(tok)
                           /\ res.val >= 0 - 90 * 3600
                           /\ res.val <= 90 * 3600

\* C6: validate_lon accepts a token iff it is six or seven digits
\* [D]DDMMSS followed by E or W with MM <= 60, SS <= 60 and at most 180
\* degrees of arc-seconds, and then returns the signed value, within
\* [-180, 180] degrees.
C6_LonAcceptedIffWellFormed ==
    Done("validate_lon")
        => /\ res.valid <=>
                /\ \/ DigitsThenLetter(tok, 6, {"E", "W"})
                   \/ DigitsThenLetter(tok, 7, {"E", "W"})
                /\ InRange(tok, 180)
           /\ res.valid => /\ res.val = Signed(tok)
                           /\ res.val >= 0 - 180 * 3600
                           /\ res.val <= 180 * 3600

\* C7: validate_radius accepts a token iff it is one or more digits
\* optionally followed by NM, and then returns the value of the digits.
DigitRunThenNM(t) ==
    \E k \in 1..Len(t) :
        /\ \A i \in 1..k : t[i] \in DigitChars
        /\ SubSeq(t, k + 1, Len(t)) \in {<<>>, <<"N", "M">>}

RECURSIVE DigitsValue(_, _)
DigitsValue(t, i) ==
    IF i > Len(t) \/ t[i] \notin DigitChars THEN 0
    ELSE LET rest == DigitsValue(t, i + 1)
             width == Cardinality({j \in (i + 1)..Len(t) :
                          \A h \in (i + 1)..j : t[h] \in DigitChars})
             Pow10[n \in 0..width] == IF n = 0 THEN 1 ELSE 10 * Pow10[n - 1]
         IN  DigitVal(t[i]) * Pow10[width] + rest

C7_RadiusAcceptedIffDigits ==
    Done("validate_radius")
        => /\ res.valid <=> DigitRunThenNM(tok)
           /\ res.valid => res.val = DigitsValue(tok, 1)

\* C8: validate_ident returns its argument iff the argument is 1 to 20
\* characters long, whatever the characters, and None otherwise.
C8_IdentAcceptedIffLength ==
    Done("validate_ident")
        => /\ res.valid <=> (Len(tok) >= 1 /\ Len(tok) <= 20)
           /\ res.valid => res.val = tok

\* C9: compute_circle returns 360 latitudes and 360 longitudes, the i-th
\* pair (i = 0..359) being get_location's point for bearing i.
C9_CircleOnePointPerBearing ==
    Done("compute_circle")
        => /\ Len(circle.lats) = 360
           /\ Len(circle.lons) = 360
           /\ \A i \in 0..359 :
                LET p == get_location(center.lat, center.lon, i, center.radius)
                IN  circle.lats[i + 1] = p[1] /\ circle.lons[i + 1] = p[2]

\* a circle of radius 400 around 40N 079:15W has been computed
C9_Witness ==
    /\ Done("compute_circle")
    /\ center = [lat |-> 144000, lon |-> -285300, radius |-> 400]
    /\ Len(circle.lats) = 360
    /\ circle.lats[91].of.bearing = 90

\* C11: loading a day whose YAML file does not exist gives an empty result,
\* no diagnostic and no exception, in lib_notam_yaml.import_notams and in
\* plot_notams.import_notams (run by plot_notams.main).
C11_AbsentFileEmpty ==
    (pc = "done" /\ op \in {"import_notams", "plot_main"}
                 /\ yaml_file.kind = "absent")
        => /\ outcome \in {"returned", "plotted"}
           /\ errors = <<>>
           /\ notam_list = <<>>
           /\ notams = init_notams

\* the diagnostics of record ii (0-based), in the order they were recorded
ErrorsOf(ii) ==
    SelectSeq(errors, LAMBDA e : e.i_th = add_number_suffix(DecStr(ii)))

\* the templates of the fields of notam that fail their validator, in the
\* order ident, latitude, longitude, radius
FailingFields(notam) ==
    (IF validate_ident(notam["ident"]).valid THEN <<>> ELSE <<"INVALID_IDENT">>)
    \o (IF validate_lat(upper(notam["lat"])).valid THEN <<>> ELSE <<"INVALID_LATITUDE">>)
    \o (IF validate_lon(upper(notam["lon"])).valid THEN <<>> ELSE <<"INVALID_LONGITUDE">>)
    \o (IF validate_radius(upper(notam["rad"])).valid THEN <<>> ELSE <<"INVALID_RADIUS">>)

\* C12: when import_notams returns, a record that has its four keys
\* contributed one diagnostic per failing field and no other, in the order
\* ident, latitude, longitude, radius, each carrying the raw value.
C12_OneDiagnosticPerFailingField ==
    (Done("import_notams") /\ outcome = "returned")
        => \A i \in 1..Len(Recs) :
              DOMAIN Recs[i] = Range(NOTAM_KEYS)
                => /\ [k \in 1..Len(ErrorsOf(i - 1)) |-> ErrorsOf(i - 1)[k].template]
                        = FailingFields(Recs[i])
                   /\ \A k \in 1..Len(ErrorsOf(i - 1)) :
                        ErrorsOf(i - 1)[k].value = Recs[i][ErrorsOf(i - 1)[k].key]

\* a returned call whose second record failed all four validators and has
\* four diagnostics, after a first record that failed two
C12_Witness ==
    /\ Done("import_notams") /\ outcome = "returned"
    /\ Len(Recs) = 2
    /\ Len(FailingFields(Recs[1])) = 2
    /\ Len(FailingFields(Recs[2])) = 4
    /\ Len(ErrorsOf(1)) = 4
    /\ Len(errors) = 6

\* C13: every diagnostic names its record by the 1-based ordinal of the
\* record's position: the diagnostics of the i-th record (i = 1, 2, ...)
\* carry add_number_suffix(i), "1st" for the first record.
C13_OneBasedOrdinal ==
    (pc = "done" /\ op \in {"import_notams", "plot_main"}
                 /\ outcome \in {"returned", "exit"})
        => \A k \in 1..Len(errors) :
              \E i \in 1..Len(Recs) :
                 /\ errors[k].i_th = add_number_suffix(DecStr(i))
                 /\ ~FieldsValid(Recs[i])

\* C15: whenever the plot pipeline reaches rendering, the idents, latitudes,
\* longitudes, radii and circles are lists of one length, entry i of each
\* coming from the i-th record of the file, and circle i is the circle
\* around latitude i, longitude i of radius i.
C15_ListsAligned ==
    (Done("plot_main") /\ outcome = "plotted")
        => /\ Len(notams.idents) = Len(Recs)
           /\ Len(notams.latitudes) = Len(Recs)
           /\ Len(notams.longitudes) = Len(Recs)
           /\ Len(notams.radii) = Len(Recs)
           /\ Len(notams.circles) = Len(Recs)
           /\ \A i \in 1..Len(Recs) :
                /\ notams.idents[i] = Recs[i]["ident"]
                /\ notams.latitudes[i].valid
                /\ notams.longitudes[i].valid
                /\ notams.radii[i].valid
                /\ Len(notams.circles[i].lats) = 360
                /\ \A b \in 0..359 :
                     LET p == get_location(notams.latitudes[i].val,
                                           notams.longitudes[i].val, b,
                                           notams.radii[i].val)
                     IN  /\ notams.circles[i].lats[b + 1] = p[1]
                         /\ notams.circles[i].lons[b + 1] = p[2]

\* two records of different centers and radii have been rendered
C15_Witness ==
    /\ Done("plot_main") /\ outcome = "plotted"
    /\ Len(notams.circles) = 2
    /\ notams.latitudes[1] # notams.latitudes[2]
    /\ notams.radii[1] # notams.radii[2]
    /\ notams.circles[1] # notams.circles[2]

\* the last two decimal digits of n as a number
LastTwo(n) ==
    IF Len(n) = 1 THEN DigitVal(n[1])
    ELSE 10 * DigitVal(n[Len(n) - 1]) + DigitVal(n[Len(n)])

EnglishSuffix(n) ==
    IF LastTwo(n) \in {11, 12, 13} THEN <<"t", "h">>
    ELSE IF LastTwo(n) % 10 = 1 THEN <<"s", "t">>
    ELSE IF LastTwo(n) % 10 = 2 THEN <<"n", "d">>
    ELSE IF LastTwo(n) % 10 = 3 THEN <<"r", "d">>
    ELSE <<"t", "h">>

\* C14: for every non-negative integer n, add_number_suffix(n) is the
\* decimal digits of n followed by "th" when n mod 100 is 11, 12 or 13,
\* otherwise by "st", "nd", "rd" when n mod 10 is 1, 2, 3, and by "th" in
\* every other case.
C14_EnglishOrdinal ==
    Done("add_number_suffix") => ret = num \o EnglishSuffix(num)

\* the start and the stop of a timespan of well-formed stamps
StartOf(t) == strptime(SubSeq(t, 1, 10))

StopOf(t) == strptime(SubSeq(t, 12, 21))

WellFormed(t) ==
    /\ TIMESPAN_SUBSTRING_RE(t).matched
    /\ StartOf(t).valid
    /\ StopOf(t).valid

\* the half-open interval [start, stop) has a minute in the day of dt: it is
\* not empty, it starts before the day ends and ends after the day starts
HasMinuteIn(dt, start, stop) ==
    /\ Before(start, stop)
    /\ Before(start, Midnight(NextDay(dt)))
    /\ Before(Midnight(dt), stop)

\* C16: for a well-formed timespan days_from_timespan returns the days of
\* which [start, stop) includes a minute, each once, in ascending
\* consecutive order from the day of start on, and no other day.
C16_DaysWithAMinute ==
    (Done("days_from_timespan") /\ WellFormed(tok))
        => /\ outcome = "returned"
           /\ \A i \in 1..Len(ret) :
                /\ ret[i] = isoformat(DaysOn(StartOf(tok), i - 1))
                /\ HasMinuteIn(DaysOn(StartOf(tok), i - 1), StartOf(tok), StopOf(tok))
           /\ ~HasMinuteIn(DaysOn(StartOf(tok), Len(ret)), StartOf(tok), StopOf(tok))

\* an ident of the form P/S: digits, one slash, digits
PrefixSuffix(ident) ==
    \E k \in 2..(Len(ident) - 1) :
        /\ ident[k] = "/"
        /\ \A i \in (1..Len(ident)) \ {k} : ident[i] \in DigitChars

SlashOf(ident) == CHOOSE k \in 1..Len(ident) : ident[k] = "/"

PrefixOf(ident) == DigitsValue(SubSeq(ident, 1, SlashOf(ident) - 1), 1)

SuffixOf(ident) == DigitsValue(SubSeq(ident, SlashOf(ident) + 1, Len(ident)), 1)

\* one prefix, strictly increasing suffixes
OnePrefixIncreasing(idents) ==
    /\ idents # <<>>
    /\ \A i \in 1..Len(idents) : PrefixSuffix(idents[i])
    /\ \A i \in 1..Len(idents) : PrefixOf(idents[i]) = PrefixOf(idents[1])
    /\ \A i \in 1..(Len(idents) - 1) : SuffixOf(idents[i]) < SuffixOf(idents[i + 1])

\* the positions at which a maximal run of consecutive suffixes starts
RunStarts(idents) ==
    {i \in 1..Len(idents) :
        i = 1 \/ SuffixOf(idents[i]) # SuffixOf(idents[i - 1]) + 1}

\* the end of the run that starts at i
RunEnd(idents, i) ==
    CHOOSE j \in i..Len(idents) :
        /\ \A h \in (i + 1)..j : h \notin RunStarts(idents)
        /\ j = Len(idents) \/ (j + 1) \in RunStarts(idents)

\* a run as text: the number, or first-last
RunText(idents, i) ==
    IF RunEnd(idents, i) = i THEN DecStr(SuffixOf(idents[i]))
    ELSE DecStr(SuffixOf(idents[i])) \o <<"-">>
            \o DecStr(SuffixOf(idents[RunEnd(idents, i)]))

\* the runs from the k-th on, joined by commas
RECURSIVE RunsFrom(_, _)
RunsFrom(idents, k) ==
    IF k > Cardinality(RunStarts(idents)) THEN <<>>
    ELSE (IF k = 1 THEN <<>> ELSE <<",">>)
         \o RunText(idents, Nth(RunStarts(idents), k))
         \o RunsFrom(idents, k + 1)

\* C17: for a non-empty list of idents P/S of one prefix and strictly
\* increasing suffixes, abbreviate_idents returns P, a slash and the maximal
\* runs of consecutive suffixes in order, joined by commas, a run of one
\* written as the number and a longer run as first-last (P and the suffixes
\* as numbers, in decimal).
C17_RunsOfConsecutiveSuffixes ==
    (Done("abbreviate_idents") /\ OnePrefixIncreasing(ident_list))
        => /\ outcome = "returned"
           /\ ret = Some(DecStr(PrefixOf(ident_list[1])) \o <<"/">>
                         \o RunsFrom(ident_list, 1))

\* 10/133, 10/134, 10/137 has been abbreviated to 10/133-134,137
C17_Witness ==
    /\ Done("abbreviate_idents")
    /\ OnePrefixIncreasing(ident_list)
    /\ Len(ident_list) = 3
    /\ ret = Some(<<"1", "0", "/", "1", "3", "3", "-", "1", "3", "4", ",",
                    "1", "3", "7">>)

\* the prefix of a string: the digits before its first slash, or all of it
FirstPart(ident) ==
    IF \E k \in 1..Len(ident) : ident[k] = "/"
    THEN SubSeq(ident, 1, (CHOOSE k \in 1..Len(ident) :
                              /\ ident[k] = "/"
                              /\ \A h \in 1..(k - 1) : ident[h] # "/") - 1)
    ELSE ident

\* C18: for a list in which more than one distinct prefix appears,
\* abbreviate_idents raises ValueError and returns no string, wherever in
\* the list the differing prefix is.
C18_MixedPrefixesRaise ==
    (/\ Done("abbreviate_idents")
     /\ \A i \in 1..Len(ident_list) :
            /\ FirstPart(ident_list[i]) # <<>>
            /\ \A h \in 1..Len(FirstPart(ident_list[i])) :
                   FirstPart(ident_list[i])[h] \in DigitChars
     /\ \E i, j \in 1..Len(ident_list) :
            DigitsValue(FirstPart(ident_list[i]), 1)
                # DigitsValue(FirstPart(ident_list[j]), 1))
        => /\ outcome = "ValueError"
           /\ ret = NoneStr

\* 10/133, 10/134, 11/134: the differing prefix comes last, and the call
\* raised
C18_Witness ==
    /\ Done("abbreviate_idents")
    /\ Len(ident_list) = 3
    /\ \A i \in 1..3 : PrefixSuffix(ident_list[i])
    /\ PrefixOf(ident_list[1]) = PrefixOf(ident_list[2])
    /\ PrefixOf(ident_list[3]) # PrefixOf(ident_list[1])
    /\ outcome = "ValueError"

\* the list that loading the file as it was at the call yields: its valid
\* records, in order
Loaded0 == At(file0.recs, {i \in 1..Len(file0.recs) : FieldsValid(file0.recs[i])})

\* how often rec occurs in a list
Count(list, rec) == Cardinality({i \in 1..Len(list) : list[i] = rec})

\* C19: when the list loaded from the day's file holds a record whose ident,
\* lat, lon and rad equal the given values, delete_notam returns True and
\* the file afterwards holds the loaded list without the first such record,
\* every other record (further duplicates too) kept in order.
C19_DeleteFirstMatch ==
    (Done("delete_notam") /\ Count(Loaded0, form) >= 1)
        => /\ ret = TRUE
           /\ outcome = "rendered"
           /\ \E k \in 1..Len(Loaded0) :
                /\ Loaded0[k] = form
                /\ \A h \in 1..(k - 1) : Loaded0[h] # form
                /\ yaml_file.kind = "list"
                /\ yaml_file.recs =
                     SubSeq(Loaded0, 1, k - 1) \o SubSeq(Loaded0, k + 1, Len(Loaded0))

\* C20: ADD validates the fields before the day's file is updated: a NOTAM
\* with a field that fails its validator is not written to the file, and a
\* NOTAM of four valid fields is appended at the end of the day's list and
\* is in the list shown afterwards.
C20_AddValidatesFirst ==
    Done("add_notam")
        => IF FieldsValid(form)
           THEN /\ yaml_file.kind = "list"
                /\ yaml_file.recs = Append(Loaded0, form)
                /\ outcome = "rendered"
                /\ notam_list = Append(Loaded0, form)
           ELSE Count(yaml_file.recs, form) <= Count(file0.recs, form)

\* C21: a POST with btn 'plot' for a day generates a new plot for that day
\* (main runs on the day's file and draws its circles) and then returns the
\* day's page; the request does not fail.
C21_PlotPostRenders ==
    Done("plot_post")
        => /\ outcome = "rendered"
           /\ notams = plot_main(file0).notams
           /\ notam_list = home(file0).notam_list

\* the four fields a delete or a modify looks for
Target ==
    IF op = "modify_notam"
    THEN [ident |-> form.orig_ident, lat |-> form.orig_lat,
          lon |-> form.orig_lon, rad |-> form.orig_rad]
    ELSE form

\* C22: when no stored record of the day equals the given ident, lat, lon
\* and rad, delete_notam and modify_notam return False without raising and
\* the day's file is unchanged; an empty or absent file is such a case.
C22_NoMatchNoWrite ==
    (pc = "done" /\ op \in {"delete_notam", "modify_notam"}
       /\ Count(file0.recs, Target) = 0)
        => /\ ret = FALSE
           /\ outcome = "rendered"
           /\ yaml_file = file0

\* the position of the first record of the list that equals rec
FirstAt(list, rec) ==
    CHOOSE k \in 1..Len(list) :
        list[k] = rec /\ \A h \in 1..(k - 1) : list[h] # rec

\* the validated load with the one change of the operation applied
Rewritten ==
    CASE op = "add_notam" -> Append(Loaded0, form)
      [] op = "delete_notam" ->
            [i \in 1..(Len(Loaded0) - 1) |->
                IF i < FirstAt(Loaded0, form) THEN Loaded0[i] ELSE Loaded0[i + 1]]
      [] op = "modify_notam" ->
            [i \in 1..Len(Loaded0) |->
                IF i = FirstAt(Loaded0, Target)
                THEN [ident |-> form.ident, lat |-> form.lat,
                      lon |-> form.lon, rad |-> form.rad]
                ELSE Loaded0[i]]

\* C23: every successful add_notam, delete_notam or modify_notam rewrites
\* the day's file from the validated load: the file then holds the records
\* that passed validation when loaded, with the one change applied, so a
\* stored record that fails validation is gone from the file.
C23_RewrittenFromValidatedLoad ==
    (pc = "done" /\ op \in {"add_notam", "delete_notam", "modify_notam"}
       /\ ret = TRUE)
        => /\ yaml_file.kind = "list"
           /\ yaml_file.recs = Rewritten

\* a successful operation on a file that held an invalid record other than
\* the one aimed at or written, which the file no longer holds
C23_Witness ==
    /\ pc = "done" /\ op \in {"add_notam", "delete_notam", "modify_notam"}
    /\ ret = TRUE
    /\ \E i \in 1..Len(file0.recs) :
          /\ ~FieldsValid(file0.recs[i])
          /\ file0.recs[i] # Target
          /\ file0.recs[i].ident # form.ident
          /\ Count(yaml_file.recs, file0.recs[i]) = 0

====
